---------------------------- MODULE Spec2Model ----------------------------
(***************************************************************************)
(* Model of mycroft.audio.services.AudioBackend and of its mplayer         *)
(* implementation mycroft.audio.services.mplayer.MPlayerService.           *)
(*                                                                         *)
(* One backend instance is modelled.  `cls` is the class the instance was  *)
(* built from: "MPlayerService", or "AudioBackend" for a backend that       *)
(* inherits every default of the base class.                               *)
(***************************************************************************)
EXTENDS Integers, Sequences, FiniteSets, TLC

(***************************************************************************)
(* Bounds of the model.                                                    *)
(***************************************************************************)
\* playlist_position of a status event ranges over 0..MaxPosition
MaxPosition == 1
\* the engine reports track numbers 1..MaxEngineTrack (or none)
MaxEngineTrack == 1
\* the backends table of a configuration holds at most MaxBackends entries
MaxBackends == 2
\* the pending playlist holds at most MaxTracks entries
MaxTracks == 2
\* the engine's volume at construction ranges over 0..MaxVolume
MaxVolume == 1

(***************************************************************************)
(* Python values.  A value is tagged by its type, so that 0, "" and None   *)
(* are three different values, all of them falsy.                          *)
(***************************************************************************)
None == [none |-> "None"]
PyInt(n) == [int |-> n]
PyStr(s) == [str |-> s]
PyTrue == [bool |-> TRUE]
PyFalse == [bool |-> FALSE]
\* a volume level num/den in lowest terms (mpc.volume / 3 is a true division)
PyNum(num, den) == [num |-> num, den |-> den]

\* bool(v) of Python: None, False, 0, 0.0 and "" are falsy
Truthy(v) ==
    v # None /\ v # PyFalse /\ v # PyInt(0) /\ v # PyStr("") /\ v # PyNum(0, 1)

\* a or b of Python
PyOr(a, b) == IF Truthy(a) THEN a ELSE b

(***************************************************************************)
(* Python dicts.  A metadata record (and an event payload) is a function   *)
(* from its keys to values.  track_data is a dict whose iteration order    *)
(* matters (uri2index scans it), so it is the sequence of its items        *)
(* [k |-> key, v |-> record] in insertion order.                           *)
(***************************************************************************)
EmptyDict == <<>>

\* d.get(k, default) on a record
DictGetOr(d, k, default) == IF k \in DOMAIN d THEN d[k] ELSE default

\* d.get(k) on a record
DictGet(d, k) == DictGetOr(d, k, None)

\* d[k] = v on a record
DictSet(d, k, v) == [x \in DOMAIN d \cup {k} |-> IF x = k THEN v ELSE d[x]]

\* the keys of track_data
Keys(td) == {td[i].k : i \in DOMAIN td}

\* index in track_data
Has(td, idx) == idx \in Keys(td)

\* track_data[idx], for idx in track_data
Item(td, idx) == td[CHOOSE i \in DOMAIN td : td[i].k = idx].v

\* track_data[idx] = rec: replaces in place, or appends a new key
SetItem(td, idx, rec) ==
    IF Has(td, idx)
    THEN [i \in DOMAIN td |-> IF td[i].k = idx THEN [k |-> idx, v |-> rec] ELSE td[i]]
    ELSE Append(td, [k |-> idx, v |-> rec])

(***************************************************************************)
(* The inputs: payloads of play:status events and the engine's metadata.   *)
(***************************************************************************)
Positions == {PyInt(i) : i \in 0..MaxPosition}
Uris == {PyStr(""), PyStr("x")}
Titles == {PyStr(""), PyStr("A")}

\* the payloads: any subset of the keys, each with one of its values
EventKeys == {"playlist_position", "uri", "title"}
EventValues(k) ==
    CASE k = "playlist_position" -> Positions
      [] k = "uri" -> Uris
      [] k = "title" -> Titles
Messages ==
    UNION {{m \in [ks -> Positions \cup Uris \cup Titles] :
               \A k \in ks : m[k] \in EventValues(k)} : ks \in SUBSET EventKeys}

\* what the engine can report for the title and the track of the loaded file
EngineTitles == {None, PyStr("A")}
EngineTracks == {None} \cup {PyInt(i) : i \in 1..MaxEngineTrack}

VARIABLES
    cls,                    \* class of the instance
    index,                  \* self.index
    track_data,             \* self.track_data
    track_start_callback,   \* self._track_start_callback
    normal_volume,          \* self.normal_volume
    tracks,                 \* self.tracks
    mpc,                    \* self.mpc: the engine's volume, paused and playing
    calls,                  \* the calls the last operation made on the engine
    lastOp,                 \* the last operation run on the instance
    event,                  \* the payload of the last status event
    arg,                    \* the argument of the last add_list or load_service
    resolved,               \* the index the last status event or query worked on
    result,                 \* what the last operation returned
    err,                    \* the exception the last operation raised, or "none"
    pre,                    \* normal_volume and mpc.volume when it started
    ev,                     \* the event-delivery thread: its position in
                            \* handle_track_status and the handler's locals
    cmd                     \* the command thread: its position in track_info
                            \* and the method's locals

vars == <<cls, index, track_data, track_start_callback, normal_volume, tracks,
          mpc, calls, lastOp, event, arg, resolved, result, err, pre, ev, cmd>>

\* uri2index returning the last key whose record has that uri
uri2indexLast(td, uri) ==
    LET hits == {i \in DOMAIN td : DictGetOr(td[i].v, "uri", PyStr("")) = uri}
    IN  IF hits = {} THEN None
        ELSE td[CHOOSE i \in hits : \A j \in hits : i >= j].k

(***************************************************************************)
(* AudioBackend.uri2index: the first key, in iteration order, whose record *)
(* has that uri.                                                           *)
(***************************************************************************)
uri2index(td, uri) ==
    LET hits == {i \in DOMAIN td : DictGetOr(td[i].v, "uri", PyStr("")) = uri}
    IN  IF hits = {} THEN None
        ELSE td[CHOOSE i \in hits : \A j \in hits : i <= j].k

(***************************************************************************)
(* AudioBackend.handle_track_status, as functions of the store and the     *)
(* payload.                                                                *)
(***************************************************************************)
\* EventIndex without the "and uri" of line 45
EventIndexAnyUri(td, data) ==
    LET position == DictGet(data, "playlist_position")
        uri == DictGet(data, "uri")
    IN  IF position = None THEN uri2index(td, PyOr(uri, PyStr(""))) ELSE position

\* lines 43-46: the index of the event
EventIndex(td, data) ==
    LET position == DictGet(data, "playlist_position")
        uri == DictGet(data, "uri")
    IN  IF position = None /\ Truthy(uri) THEN uri2index(td, uri) ELSE position

\* line 50: the keys of the payload that are written
WrittenKeys(data) == {k \in DOMAIN data : Truthy(data[k])}

\* MergeEvent without the test of line 50
MergeEventUnfiltered(rec, data) ==
    [x \in DOMAIN rec \cup DOMAIN data |-> IF x \in DOMAIN data THEN data[x] ELSE rec[x]]

\* lines 49-51 on the record of the index
MergeEvent(rec, data) ==
    [x \in DOMAIN rec \cup WrittenKeys(data) |->
        IF x \in WrittenKeys(data) THEN data[x] ELSE rec[x]]

\* line 51 raises KeyError at the first written key when the index has no record
StatusRaises(td, data) ==
    LET idx == EventIndex(td, data)
    IN  idx # None /\ WrittenKeys(data) # {} /\ ~Has(td, idx)

\* the store after the handler
StatusStore(td, data) ==
    LET idx == EventIndex(td, data)
    IN  IF idx # None /\ Has(td, idx)
        THEN SetItem(td, idx, MergeEvent(Item(td, idx), data))
        ELSE td


(***************************************************************************)
(* AudioBackend.track_info (lines 166-169).                                *)
(***************************************************************************)
BaseTrackInfoStore(td, idx) ==
    IF ~Has(td, idx) THEN td
    ELSE SetItem(td, idx, DictSet(Item(td, idx), "track_number", idx))

BaseTrackInfoResult(td, idx) ==
    IF ~Has(td, idx) THEN [track_number |-> idx]
    ELSE Item(BaseTrackInfoStore(td, idx), idx)

(***************************************************************************)
(* MPlayerService.get_meta and MPlayerService.track_info.                  *)
(***************************************************************************)
\* the dict get_meta builds from what the engine reports; the engine of the
\* model has no artist, album, genre, year or comment tag
get_meta(title, track) ==
    [title |-> title, artist |-> None, album |-> None, genre |-> None,
     year |-> None, comment |-> None, track_number |-> track]

\* line 97: the index track_info works on
TrackInfoIndex(ret, idx) == PyOr(DictGet(ret, "track_number"), idx)

\* lines 101-104: the merge of ret into an existing record
MergeMeta(rec, ret) ==
    [x \in DOMAIN rec \cup {k \in DOMAIN ret : Truthy(ret[k])} |->
        IF x \in DOMAIN ret /\ Truthy(ret[x]) THEN ret[x] ELSE rec[x]]

\* lines 98-104: the store after track_info
TrackInfoStore(td, ret, idx) ==
    LET i == TrackInfoIndex(ret, idx)
    IN  IF ~Has(td, i) THEN SetItem(td, i, ret)
        ELSE SetItem(td, i, MergeMeta(Item(td, i), ret))

(***************************************************************************)
(* The engine.  mpc.volume is a plain attribute; mpc.pause() toggles       *)
(* mpc.paused; mpc.stop() ends playback and mpc.loadfile() starts it.      *)
(***************************************************************************)
FallbackVolume == 50
DuckDivisor == 3

\* q / DuckDivisor, in lowest terms (den is a power of DuckDivisor)
Ducked(q) ==
    IF q.num % DuckDivisor = 0 THEN PyNum(q.num \div DuckDivisor, q.den)
    ELSE PyNum(q.num, q.den * DuckDivisor)

MpcStop == [fn |-> "stop"]
MpcPause == [fn |-> "pause"]
MpcDestroy == [fn |-> "destroy"]
MpcLoadfile(track, append) == [fn |-> "loadfile", file |-> track, append |-> append]
\* a call of an abstract method of the base class
SelfCall(method) == [fn |-> method]

TrackUris == {"x", "y"}
TrackLists == UNION {[1..n -> TrackUris] : n \in 0..MaxTracks}
\* the callables a caller can register
Callback(name) == [callable |-> name]
Callbacks == {Callback("cb1"), Callback("cb2")}

IsMPlayer == cls = "MPlayerService"

\* a thread that is in no method
Idle == [pc |-> "idle"]

\* what an operation records when it returns or raises: its name, its
\* argument, its result, the calls it made
Returns(op, a, res, cs, e, idx, data) ==
    /\ lastOp' = op
    /\ arg' = a
    /\ result' = res
    /\ calls' = cs
    /\ err' = e
    /\ resolved' = idx
    /\ event' = data
    /\ pre' = [normal_volume |-> normal_volume,
               volume |-> IF IsMPlayer THEN mpc.volume ELSE None]

\* an operation run from call to return with no other thread in between
Outcome(op, a, res, cs, e, idx, data) ==
    /\ Returns(op, a, res, cs, e, idx, data)
    /\ UNCHANGED <<ev, cmd>>

\* the outcome of an operation whose argument is not recorded
Record(op, res, cs, e, idx, data) == Outcome(op, None, res, cs, e, idx, data)

\* an operation that returns without raising
Done(op, res, cs) == Record(op, res, cs, "none", None, None)

(***************************************************************************)
(* The state after construction (AudioBackend.__init__ lines 27-34 and     *)
(* MPlayerService.__init__ lines 30-36).                                   *)
(***************************************************************************)
Init ==
    /\ cls \in {"AudioBackend", "MPlayerService"}
    /\ index = PyInt(0)
    /\ track_data = EmptyDict
    /\ track_start_callback = None
    /\ normal_volume = None
    /\ tracks = <<>>
    /\ mpc \in IF IsMPlayer
               THEN {[volume |-> PyNum(v, 1), paused |-> FALSE, playing |-> FALSE] :
                        v \in 0..MaxVolume}
               ELSE {None}
    /\ calls = <<>>
    /\ lastOp = "__init__"
    /\ event = None
    /\ arg = None
    /\ resolved = None
    /\ result = None
    /\ err = "none"
    /\ pre = [normal_volume |-> None, volume |-> None]
    /\ ev = Idle
    /\ cmd = Idle

(***************************************************************************)
(* The metadata store: status events and queries.                          *)
(***************************************************************************)
\* a handler that also moves the cursor to the index of the event
HandleTrackStatusMovesIndex(data) ==
    /\ track_data' = StatusStore(track_data, data)
    /\ index' = IF EventIndex(track_data, data) # None
                THEN EventIndex(track_data, data) ELSE index
    /\ Record("handle_track_status", None, <<>>,
              IF StatusRaises(track_data, data) THEN "KeyError" ELSE "none",
              EventIndex(track_data, data), data)
    /\ UNCHANGED <<cls, track_start_callback, normal_volume, tracks, mpc>>

handle_track_status(data) ==
    /\ track_data' = StatusStore(track_data, data)
    /\ Record("handle_track_status", None, <<>>,
              IF StatusRaises(track_data, data) THEN "KeyError" ELSE "none",
              EventIndex(track_data, data), data)
    /\ UNCHANGED <<cls, index, track_start_callback, normal_volume, tracks, mpc>>

track_info(title, track) ==
    /\ IF IsMPlayer
       THEN LET ret == get_meta(title, track)
                td == TrackInfoStore(track_data, ret, index)
            IN  /\ track_data' = td
                /\ Record("track_info", Item(td, TrackInfoIndex(ret, index)), <<>>,
                          "none", TrackInfoIndex(ret, index), None)
       ELSE /\ track_data' = BaseTrackInfoStore(track_data, index)
            /\ Record("track_info", BaseTrackInfoResult(track_data, index), <<>>,
                      "none", index, None)
    /\ UNCHANGED <<cls, index, track_start_callback, normal_volume, tracks, mpc>>

playlist_info ==
    /\ Done("playlist_info", track_data, <<>>)
    /\ UNCHANGED <<cls, index, track_data, track_start_callback, normal_volume,
                   tracks, mpc>>

NextStore ==
    \/ \E data \in Messages : handle_track_status(data)
    \/ \E title \in EngineTitles, track \in EngineTracks : track_info(title, track)
    \/ playlist_info

\* the store's operations never touch the engine: one volume is enough
InitStore == Init /\ (IsMPlayer => mpc.volume = PyNum(MaxVolume, 1))

SpecStore == InitStore /\ [][NextStore]_vars

(***************************************************************************)
(* The playlist and the transport (MPlayerService lines 41-83, and the     *)
(* defaults of AudioBackend).                                              *)
(***************************************************************************)
\* a clear_list that also forgets the metadata of the cleared playlist
ClearListDropsStore ==
    /\ IsMPlayer
    /\ tracks' = <<>>
    /\ track_data' = EmptyDict
    /\ Done("clear_list", None, <<>>)
    /\ UNCHANGED <<cls, index, track_start_callback, normal_volume, mpc>>

clear_list ==
    /\ IsMPlayer
    /\ tracks' = <<>>
    /\ Done("clear_list", None, <<>>)
    /\ UNCHANGED <<cls, index, track_data, track_start_callback, normal_volume, mpc>>

add_list(new) ==
    /\ IsMPlayer
    /\ Len(tracks) + Len(new) <= MaxTracks
    /\ tracks' = tracks \o new
    /\ Outcome("add_list", new, None, <<>>, "none", None, None)
    /\ UNCHANGED <<cls, index, track_data, track_start_callback, normal_volume, mpc>>

\* MPlayerService.stop, line 62
StopCalls == <<MpcStop>>

\* play without the self.stop() of line 53
PlayCallsNoStop(ts) ==
    IF Len(ts) > 0
    THEN <<MpcLoadfile(ts[1], 0)>> \o [i \in 1..(Len(ts) - 1) |-> MpcLoadfile(ts[i + 1], 1)]
    ELSE <<>>

\* play whose loop of line 58 runs over self.tracks instead of self.tracks[1:]
PlayCallsRepeatFirst(ts) ==
    StopCalls \o
    (IF Len(ts) > 0
     THEN <<MpcLoadfile(ts[1], 0)>> \o [i \in 1..Len(ts) |-> MpcLoadfile(ts[i], 1)]
     ELSE <<>>)

\* MPlayerService.play, lines 53-59: the calls made on the engine
PlayCalls(ts) ==
    StopCalls \o
    (IF Len(ts) > 0
     THEN <<MpcLoadfile(ts[1], 0)>> \o [i \in 1..(Len(ts) - 1) |-> MpcLoadfile(ts[i + 1], 1)]
     ELSE <<>>)

\* the engine after the calls of play
PlayEngine(m, ts) == [m EXCEPT !.playing = Len(ts) > 0]

play ==
    /\ IsMPlayer
    /\ mpc' = PlayEngine(mpc, tracks)
    /\ Done("play", None, PlayCalls(tracks))
    /\ UNCHANGED <<cls, index, track_data, track_start_callback, normal_volume, tracks>>

\* MPlayerService.stop, line 63: the value returned
StopResult(m) == PyTrue

stop ==
    /\ IsMPlayer
    /\ mpc' = [mpc EXCEPT !.playing = FALSE]
    /\ Done("stop", StopResult(mpc), StopCalls)
    /\ UNCHANGED <<cls, index, track_data, track_start_callback, normal_volume, tracks>>

\* next and previous doing the index arithmetic of the comments of lines 119, 126
ReplayStepsIndex(op) ==
    /\ index' = PyInt(IF op = "next" THEN index.int + 1 ELSE index.int - 1)
    /\ IF IsMPlayer
       THEN /\ mpc' = PlayEngine(mpc, tracks)
            /\ Done(op, None, PlayCalls(tracks))
       ELSE /\ mpc' = mpc
            /\ Done(op, None, <<SelfCall("play")>>)
    /\ UNCHANGED <<cls, track_data, track_start_callback, normal_volume, tracks>>

\* AudioBackend.next and AudioBackend.previous: self.play()
Replay(op) ==
    /\ IF IsMPlayer
       THEN /\ mpc' = PlayEngine(mpc, tracks)
            /\ Done(op, None, PlayCalls(tracks))
       ELSE /\ mpc' = mpc
            /\ Done(op, None, <<SelfCall("play")>>)
    /\ UNCHANGED <<cls, index, track_data, track_start_callback, normal_volume, tracks>>

next == Replay("next")

previous == Replay("previous")

\* pause without the test of line 66
PauseCallsAlways(m) == <<MpcPause>>

\* MPlayerService.pause, lines 66-67
PauseCalls(m) == IF ~m.paused THEN <<MpcPause>> ELSE <<>>

\* MPlayerService.resume, lines 70-71
ResumeCalls(m) == IF m.paused THEN <<MpcPause>> ELSE <<>>

\* the engine after the calls: each mpc.pause() toggles mpc.paused
Toggled(m, cs) == IF cs = <<>> THEN m ELSE [m EXCEPT !.paused = ~m.paused]

pause ==
    /\ mpc' = IF IsMPlayer THEN Toggled(mpc, PauseCalls(mpc)) ELSE mpc
    /\ Done("pause", None, IF IsMPlayer THEN PauseCalls(mpc) ELSE <<>>)
    /\ UNCHANGED <<cls, index, track_data, track_start_callback, normal_volume, tracks>>

resume ==
    /\ mpc' = IF IsMPlayer THEN Toggled(mpc, ResumeCalls(mpc)) ELSE mpc
    /\ Done("resume", None, IF IsMPlayer THEN ResumeCalls(mpc) ELSE <<>>)
    /\ UNCHANGED <<cls, index, track_data, track_start_callback, normal_volume, tracks>>

\* lower_volume without the test of line 74
LowerGuardAlways(nv) == TRUE

\* MPlayerService.lower_volume, line 74
LowerGuard(nv) == nv = None

\* MPlayerService.lower_volume, lines 75-76: <<normal_volume, mpc.volume>> after
LowerVolume(nv, vol) == IF LowerGuard(nv) THEN <<vol, Ducked(vol)>> ELSE <<nv, vol>>

\* restore_volume leaving the volume alone when nothing is remembered
RestoreVolumeNoFallback(nv, vol) == IF Truthy(nv) THEN <<None, nv>> ELSE <<None, vol>>

\* MPlayerService.restore_volume, lines 79-83: <<normal_volume, mpc.volume>> after
RestoreVolume(nv, vol) == IF Truthy(nv) THEN <<None, nv>> ELSE <<None, PyNum(FallbackVolume, 1)>>

lower_volume ==
    /\ IF IsMPlayer
       THEN /\ normal_volume' = LowerVolume(normal_volume, mpc.volume)[1]
            /\ mpc' = [mpc EXCEPT !.volume = LowerVolume(normal_volume, mpc.volume)[2]]
       ELSE UNCHANGED <<normal_volume, mpc>>
    /\ Done("lower_volume", None, <<>>)
    /\ UNCHANGED <<cls, index, track_data, track_start_callback, tracks>>

restore_volume ==
    /\ IF IsMPlayer
       THEN /\ normal_volume' = RestoreVolume(normal_volume, mpc.volume)[1]
            /\ mpc' = [mpc EXCEPT !.volume = RestoreVolume(normal_volume, mpc.volume)[2]]
       ELSE UNCHANGED <<normal_volume, mpc>>
    /\ Done("restore_volume", None, <<>>)
    /\ UNCHANGED <<cls, index, track_data, track_start_callback, tracks>>

set_track_start_callback(callback_func) ==
    /\ track_start_callback' = callback_func
    /\ Done("set_track_start_callback", None, <<>>)
    /\ UNCHANGED <<cls, index, track_data, normal_volume, tracks, mpc>>

\* MPlayerService.shutdown (line 112) and AudioBackend.shutdown (line 182):
\* the calls made
ShutdownCalls(c) == IF c = "MPlayerService" THEN <<MpcDestroy>> ELSE <<SelfCall("stop")>>

shutdown ==
    /\ Done("shutdown", None, ShutdownCalls(cls))
    /\ UNCHANGED <<cls, index, track_data, track_start_callback, normal_volume,
                   tracks, mpc>>

(***************************************************************************)
(* The module function load_service of the mplayer service.                *)
(***************************************************************************)
\* the entries of the backends table: a type, and an active flag or none
BackendTypes == {PyStr("mplayer"), PyStr("vlc")}
BackendEntries ==
    {[type |-> t] : t \in BackendTypes} \cup
    {[type |-> t, active |-> a] : t \in BackendTypes, a \in {PyTrue, PyFalse}}
BackendNames == {"a", "b", "c"}

\* the backends tables, dicts in insertion order with distinct keys
BackendTables ==
    UNION {{t \in [1..n -> [k : BackendNames, v : BackendEntries]] :
               \A i, j \in 1..n : t[i].k = t[j].k => i = j} : n \in 0..MaxBackends}

\* the configurations: with a backends table, or without the key
BaseConfigs == {[lang |-> PyStr("en-us")]} \cup {[backends |-> t] : t \in BackendTables}

\* MPlayerService(config, bus, name): what the constructor keeps of its arguments
MPlayerServiceOf(config, name) == [config |-> config, name |-> name]

\* the filter of line 117 without its test of the active flag
ServiceFilterAnyFlag(b) == b.v["type"] = PyStr("mplayer")

\* the filter of lines 117-119 on one item of the backends table
ServiceFilter(b) ==
    /\ b.v["type"] = PyStr("mplayer")
    /\ Truthy(DictGetOr(b.v, "active", PyTrue))

\* load_service, lines 116-121
LoadService(base_config) ==
    LET backends == DictGetOr(base_config, "backends", <<>>)
        services == SelectSeq(backends, ServiceFilter)
    IN  [i \in 1..Len(services) |-> MPlayerServiceOf(services[i].v, services[i].k)]

load_service(base_config) ==
    /\ Outcome("load_service", base_config, LoadService(base_config), <<>>, "none",
               None, None)
    /\ UNCHANGED <<cls, index, track_data, track_start_callback, normal_volume,
                   tracks, mpc>>

NextLoad == \E base_config \in BaseConfigs : load_service(base_config)

SpecLoad == Init /\ [][NextLoad]_vars

NextPlayer ==
    \/ clear_list
    \/ \E new \in TrackLists : add_list(new)
    \/ play
    \/ stop
    \/ next
    \/ previous
    \/ pause
    \/ resume
    \/ lower_volume
    \/ restore_volume
    \/ \E callback_func \in Callbacks : set_track_start_callback(callback_func)
    \/ shutdown

SpecPlayer == Init /\ [][NextPlayer]_vars

(***************************************************************************)
(* handle_track_status on the event-delivery thread and track_info /       *)
(* playlist_info on the command thread, one statement at a time.  Neither  *)
(* class takes a lock.  A for loop over a dict holds an iterator: the      *)
(* position reached and the size of the dict when the loop started; the    *)
(* next step of the loop raises RuntimeError when the size has changed.    *)
(***************************************************************************)
\* the payloads that carry no title
FrameMessages == {data \in Messages : "title" \notin DOMAIN data}

\* what a statement of one thread leaves alone
history == <<calls, lastOp, event, arg, resolved, result, err, pre>>
player == <<cls, index, track_start_callback, normal_volume, tracks, mpc>>

\* lines 43-46: the locals index and uri; line 46 decides whether uri2index runs
status_begin(data) ==
    /\ ev = Idle
    /\ LET position == DictGet(data, "playlist_position")
           uri == DictGet(data, "uri")
       IN  ev' = IF position = None /\ Truthy(uri)
                 THEN [pc |-> "uri2index", data |-> data, uri |-> uri]
                 ELSE [pc |-> "merge", data |-> data, index |-> position,
                       keys |-> IF position = None THEN {} ELSE WrittenKeys(data)]
    /\ UNCHANGED <<track_data, cmd, history, player>>

\* line 37, entering the loop: iter(self.track_data)
status_iter ==
    /\ ev.pc = "uri2index"
    /\ ev' = [pc |-> "next", data |-> ev.data, uri |-> ev.uri, it |-> 0,
              size |-> Len(track_data)]
    /\ UNCHANGED <<track_data, cmd, history, player>>

\* line 37, one step of the loop; line 40 when the loop is over
status_next ==
    /\ ev.pc = "next"
    /\ IF Len(track_data) # ev.size
       THEN /\ ev' = Idle
            /\ Returns("handle_track_status", None, None, <<>>, "RuntimeError", None,
                       ev.data)
       ELSE /\ ev' = IF ev.it = ev.size
                     THEN [pc |-> "merge", data |-> ev.data, index |-> None, keys |-> {}]
                     ELSE [ev EXCEPT !.pc = "match", !.it = ev.it + 1]
            /\ UNCHANGED history
    /\ UNCHANGED <<track_data, cmd, player>>

\* lines 38-39, and line 47 when the uri matches
status_match ==
    /\ ev.pc = "match"
    /\ ev' = IF DictGetOr(track_data[ev.it].v, "uri", PyStr("")) = ev.uri
             THEN [pc |-> "merge", data |-> ev.data, index |-> track_data[ev.it].k,
                   keys |-> WrittenKeys(ev.data)]
             ELSE [ev EXCEPT !.pc = "next"]
    /\ UNCHANGED <<track_data, cmd, history, player>>

\* lines 49-51 for one key of the payload that holds a truthy value
status_write ==
    /\ ev.pc = "merge"
    /\ \E k \in ev.keys :
           IF Has(track_data, ev.index)
           THEN /\ track_data' = SetItem(track_data, ev.index,
                                         DictSet(Item(track_data, ev.index), k, ev.data[k]))
                /\ ev' = [ev EXCEPT !.keys = ev.keys \ {k}]
                /\ UNCHANGED history
           ELSE /\ track_data' = track_data
                /\ ev' = Idle
                /\ Returns("handle_track_status", None, None, <<>>, "KeyError",
                           ev.index, ev.data)
    /\ UNCHANGED <<cmd, player>>

\* the handler returns: line 48 with no index, or line 49 with no key left
status_return ==
    /\ ev.pc = "merge"
    /\ ev.keys = {}
    /\ ev' = Idle
    /\ Returns("handle_track_status", None, None, <<>>, "none", ev.index, ev.data)
    /\ UNCHANGED <<track_data, cmd, player>>

\* MPlayerService lines 95-96: ret and index; AudioBackend.track_info merges
\* {"track_number": self.index} into the record of self.index (line 167)
info_begin(title, track) ==
    /\ cmd = Idle
    /\ cmd' = IF IsMPlayer
              THEN [pc |-> "check", ret |-> get_meta(title, track),
                    index |-> TrackInfoIndex(get_meta(title, track), index)]
              ELSE [pc |-> "check", ret |-> [track_number |-> index], index |-> index]
    /\ UNCHANGED <<track_data, ev, history, player>>

\* MPlayerService line 97, AudioBackend lines 165-166
info_check ==
    /\ cmd.pc = "check"
    /\ IF Has(track_data, cmd.index)
       THEN /\ cmd' = [pc |-> "merge", ret |-> cmd.ret, index |-> cmd.index,
                       keys |-> WrittenKeys(cmd.ret)]
            /\ UNCHANGED history
       ELSE IF IsMPlayer
       THEN /\ cmd' = [cmd EXCEPT !.pc = "insert"]
            /\ UNCHANGED history
       ELSE /\ cmd' = Idle
            /\ Returns("track_info", None, cmd.ret, <<>>, "none", cmd.index, None)
    /\ UNCHANGED <<track_data, ev, player>>

\* MPlayerService line 98
info_insert ==
    /\ cmd.pc = "insert"
    /\ track_data' = SetItem(track_data, cmd.index, cmd.ret)
    /\ cmd' = [pc |-> "merge", ret |-> cmd.ret, index |-> cmd.index, keys |-> {}]
    /\ UNCHANGED <<ev, history, player>>

\* MPlayerService lines 101-103 for one truthy key of ret, AudioBackend line 167
info_write ==
    /\ cmd.pc = "merge"
    /\ \E k \in cmd.keys :
           /\ track_data' = SetItem(track_data, cmd.index,
                                    DictSet(Item(track_data, cmd.index), k, cmd.ret[k]))
           /\ cmd' = [cmd EXCEPT !.keys = cmd.keys \ {k}]
    /\ UNCHANGED <<ev, history, player>>

\* MPlayerService line 105, AudioBackend line 168
info_return ==
    /\ cmd.pc = "merge"
    /\ cmd.keys = {}
    /\ cmd' = Idle
    /\ Returns("track_info", None, Item(track_data, cmd.index), <<>>, "none",
               cmd.index, None)
    /\ UNCHANGED <<track_data, ev, player>>

\* line 178, one statement of the command thread
info_playlist ==
    /\ cmd = Idle
    /\ playlist_info

NextConc ==
    \/ \E data \in FrameMessages : status_begin(data)
    \/ status_iter
    \/ status_next
    \/ status_match
    \/ status_write
    \/ status_return
    \/ \E track \in EngineTracks : info_begin(None, track)
    \/ info_check
    \/ info_insert
    \/ info_write
    \/ info_return
    \/ info_playlist

SpecConc == InitStore /\ [][NextConc]_vars

\* The handler of status events and track_info, with the operations that
\* give the playlist, the remembered volume and the callback a value: events
\* that carry no title, an engine that reports no title, playlists of the
\* one track "x" and one callback.
NextStatusFrame ==
    \/ \E data \in FrameMessages : handle_track_status(data)
    \/ \E track \in EngineTracks : track_info(None, track)
    \/ add_list(<<"x">>)
    \/ lower_volume
    \/ set_track_start_callback(Callback("cb1"))

SpecStatusFrame == InitStore /\ [][NextStatusFrame]_vars

\* The player's operations, with the operations that fill the record of
\* index 0: the same events, and an engine that reports no tag.
NextFrame ==
    \/ \E data \in FrameMessages : handle_track_status(data)
    \/ track_info(None, None)
    \/ playlist_info
    \/ clear_list
    \/ add_list(<<"x">>)
    \/ play
    \/ stop
    \/ next
    \/ previous
    \/ pause
    \/ resume
    \/ lower_volume
    \/ restore_volume
    \/ set_track_start_callback(Callback("cb1"))
    \/ shutdown

SpecFrame == InitStore /\ [][NextFrame]_vars

\* The whole backend, on every input.
Next == NextStore \/ NextPlayer \/ NextLoad

Spec == Init /\ [][Next]_vars

(***************************************************************************)
(* Properties of the metadata store.                                       *)
(***************************************************************************)
\* the record of idx, or the empty record when idx has none
RecordOf(td, idx) == IF Has(td, idx) THEN Item(td, idx) ELSE <<>>

\* the keys of a record that hold a non-empty value
NonEmpty(rec) == {k \in DOMAIN rec : Truthy(rec[k])}

IsStatus == lastOp = "handle_track_status"

\* C1: once a field of a record holds a non-empty value, no status event and no
\* track_info call removes the record or the field, or makes the field empty.
C1_NoFieldLost ==
    [][\A i \in DOMAIN track_data : \A k \in DOMAIN track_data[i].v :
          Truthy(track_data[i].v[k]) =>
              \E j \in DOMAIN track_data' :
                  /\ track_data'[j].k = track_data[i].k
                  /\ k \in DOMAIN track_data'[j].v
                  /\ Truthy(track_data'[j].v[k])]_vars

\* a status event with an empty title was merged into a record that has a title
C1_Witness ==
    /\ IsStatus /\ err = "none" /\ resolved # None
    /\ DictGet(event, "title") = PyStr("")
    /\ Has(track_data, resolved)
    /\ Truthy(DictGet(Item(track_data, resolved), "title"))

\* C2: a status event whose index is determined, and that has a non-empty
\* field to merge, completes without error and leaves a record for that index
\* that holds every non-empty field of the payload, also when the index had no
\* record before.
C2_MergesOrCreates ==
    (IsStatus /\ resolved # None /\ NonEmpty(event) # {}) =>
        /\ err = "none"
        /\ Has(track_data, resolved)
        /\ \A k \in NonEmpty(event) : DictGet(Item(track_data, resolved), k) = event[k]

\* C3: two status events that carry a playlist_position and do not disagree
\* on a non-empty field (with each other or with the store) leave the same
\* store in either order and with either of them replayed, and in it the
\* record of each position is the record before plus the non-empty fields
\* sent for that position.
RECURSIVE Deliver(_, _)
Deliver(td, events) ==
    IF events = <<>> THEN td
    ELSE Deliver(StatusStore(td, Head(events)), Tail(events))

Positioned == {m \in Messages : "playlist_position" \in DOMAIN m}

\* the non-empty fields the events send for position pos, as a record
SentFor(events, pos) ==
    LET es == {i \in DOMAIN events : events[i].playlist_position = pos}
        ks == UNION {NonEmpty(events[i]) : i \in es}
    IN  [k \in ks |-> events[CHOOSE i \in es : k \in NonEmpty(events[i])][k]]

\* no two of the records give different non-empty values to a field
Agree(r1, r2) == \A k \in NonEmpty(r1) \cap NonEmpty(r2) : r1[k] = r2[k]

Union(r1, r2) == [k \in DOMAIN r1 \cup DOMAIN r2 |-> IF k \in DOMAIN r2 THEN r2[k] ELSE r1[k]]

C3_AnyOrderUnion ==
    \A m1 \in Positioned, m2 \in Positioned :
        ( /\ m1.playlist_position = m2.playlist_position => Agree(m1, m2)
          /\ Agree(RecordOf(track_data, m1.playlist_position), m1)
          /\ Agree(RecordOf(track_data, m2.playlist_position), m2) ) =>
            LET final == Deliver(track_data, <<m1, m2>>)
            IN  /\ Deliver(track_data, <<m2, m1>>) = final
                /\ Deliver(track_data, <<m1, m2, m1>>) = final
                /\ Deliver(track_data, <<m2, m2, m1>>) = final
                /\ \A pos \in {m1.playlist_position, m2.playlist_position} :
                      RecordOf(final, pos) =
                          Union(RecordOf(track_data, pos), SentFor(<<m1, m2>>, pos))

\* the positions of the items of the store whose record has that uri
UriHits(td, uri) == {i \in DOMAIN td : DictGet(td[i].v, "uri") = uri}

\* C4: a status event without playlist_position and with a non-empty uri that
\* some stored record has is merged into the first record with that uri, in
\* the store's order, and changes no other record.
C4_FirstUriMatch ==
    [][( /\ lastOp' = "handle_track_status"
         /\ "playlist_position" \notin DOMAIN event'
         /\ Truthy(DictGet(event', "uri"))
         /\ UriHits(track_data, event'.uri) # {} ) =>
           LET hits == UriHits(track_data, event'.uri)
               first == CHOOSE i \in hits : \A j \in hits : i <= j
           IN  /\ err' = "none"
               /\ DOMAIN track_data' = DOMAIN track_data
               /\ \A i \in DOMAIN track_data : i # first => track_data'[i] = track_data[i]
               /\ track_data'[first].k = track_data[first].k
               /\ DOMAIN track_data'[first].v =
                      DOMAIN track_data[first].v \cup NonEmpty(event')
               /\ \A k \in DOMAIN track_data'[first].v :
                      track_data'[first].v[k] =
                          IF k \in NonEmpty(event') THEN event'[k] ELSE track_data[first].v[k]
      ]_vars

\* two records have the uri of the event, which had a title and went to the first
C4_Witness ==
    /\ IsStatus /\ err = "none"
    /\ "playlist_position" \notin DOMAIN event
    /\ Truthy(DictGet(event, "uri")) /\ Truthy(DictGet(event, "title"))
    /\ Cardinality(UriHits(track_data, event.uri)) = 2
    /\ resolved = track_data[1].k
    /\ track_data[1].v.title = event.title
    /\ DictGet(track_data[2].v, "title") # event.title

\* C5: a status event for which no index can be determined (no
\* playlist_position, and a uri that is absent, empty or held by no record)
\* raises nothing and leaves the metadata store and current_index as they were.
C5_UnresolvedIgnored ==
    [][( /\ lastOp' = "handle_track_status"
         /\ "playlist_position" \notin DOMAIN event'
         /\ \/ ~Truthy(DictGet(event', "uri"))
            \/ UriHits(track_data, event'.uri) = {} ) =>
           /\ err' = "none"
           /\ track_data' = track_data
           /\ index' = index
      ]_vars

\* an event with a title and an empty uri was ignored by a store that holds a
\* record without uri
C5_Witness ==
    /\ IsStatus /\ err = "none" /\ resolved = None
    /\ "playlist_position" \notin DOMAIN event
    /\ DictGet(event, "uri") = PyStr("")
    /\ Truthy(DictGet(event, "title"))
    /\ \E i \in DOMAIN track_data : "uri" \notin DOMAIN track_data[i].v

(***************************************************************************)
(* Properties of shutdown and of the ducking of the volume.                *)
(***************************************************************************)
\* a stop signal: mpc.stop(), or the stop() of the backend
IsStopCall(c) == c = MpcStop \/ c = SelfCall("stop")

\* C6: shutdown() sends the engine a stop signal, and sends it before any
\* teardown call (mpc.destroy).
C6_StopBeforeTeardown ==
    lastOp = "shutdown" =>
        /\ \E i \in DOMAIN calls : IsStopCall(calls[i])
        /\ \A j \in DOMAIN calls : calls[j] = MpcDestroy =>
              \E i \in 1..(j - 1) : IsStopCall(calls[i])

\* C7: restore_volume() after lower_volume() sets the engine volume to exactly
\* the value lower_volume remembered, whatever that value (0 included), and
\* clears the remembered value.
C7_RestoreRemembered ==
    (lastOp = "restore_volume" /\ IsMPlayer /\ pre.normal_volume # None) =>
        /\ mpc.volume = pre.normal_volume
        /\ normal_volume = None

\* C8: the first lower_volume() remembers the engine volume and divides it by
\* 3; a lower_volume() called while a volume is remembered changes neither
\* the remembered volume nor the engine volume.
C8_LowerOnce ==
    (lastOp = "lower_volume" /\ IsMPlayer) =>
        IF pre.normal_volume = None
        THEN /\ normal_volume = pre.volume
             /\ mpc.volume.num * 3 * pre.volume.den = pre.volume.num * mpc.volume.den
        ELSE /\ normal_volume = pre.normal_volume
             /\ mpc.volume = pre.volume

\* lower_volume() was called while a non-zero ducked volume was remembered
C8_Witness ==
    /\ lastOp = "lower_volume" /\ IsMPlayer
    /\ pre.normal_volume # None
    /\ pre.volume.num # 0
    /\ normal_volume = pre.normal_volume

\* C9: restore_volume() with no volume remembered raises nothing, sets the
\* engine volume to 50 and leaves normal_volume empty.
C9_RestoreFallback ==
    (lastOp = "restore_volume" /\ IsMPlayer /\ pre.normal_volume = None) =>
        /\ err = "none"
        /\ mpc.volume = PyNum(50, 1)
        /\ normal_volume = None

\* restore_volume() ran with nothing remembered and changed the volume to 50
C9_Witness ==
    /\ lastOp = "restore_volume" /\ IsMPlayer
    /\ pre.normal_volume = None
    /\ pre.volume # PyNum(50, 1)
    /\ mpc.volume = PyNum(50, 1)

\* C10: track_info() returns the record of current_index (a record with only
\* track_number when current_index has none in the base class), and changes
\* or adds no record of another index.
C10_TrackInfoOfCurrentIndex ==
    [][lastOp' = "track_info" =>
          /\ result' = IF Has(track_data', index) THEN Item(track_data', index)
                       ELSE [track_number |-> index]
          /\ Keys(track_data') \subseteq Keys(track_data) \cup {index}
          /\ \A idx \in Keys(track_data) :
                idx # index => RecordOf(track_data', idx) = Item(track_data, idx)
      ]_vars

(***************************************************************************)
(* Properties of track_info on an empty store, of the playlist and of the  *)
(* transport.                                                              *)
(***************************************************************************)
\* C11: track_info() called while the store is empty returns a record whose
\* only key is track_number, with value current_index.
C11_EmptyStoreTrackInfo ==
    [][(lastOp' = "track_info" /\ track_data = EmptyDict) =>
          result' = [track_number |-> index]]_vars

IsLoad(c) == c.fn = "loadfile"

\* the loadfile calls that play the list ts: the first entry loaded, the rest
\* appended
ExpectedLoads(ts) == [i \in 1..Len(ts) |-> MpcLoadfile(ts[i], IF i = 1 THEN 0 ELSE 1)]

\* C12: clear_list empties the pending playlist, add_list appends its tracks
\* in order (duplicates kept), no other operation changes it, and play()
\* hands the engine exactly that sequence, the first entry loaded and the rest
\* appended.
C12_PlaylistOrder ==
    [][/\ lastOp' = "clear_list" => tracks' = <<>>
       /\ lastOp' = "add_list" => tracks' = tracks \o arg'
       /\ lastOp' \notin {"clear_list", "add_list"} => tracks' = tracks
       /\ (lastOp' = "play" /\ IsMPlayer) =>
              SelectSeq(calls', IsLoad) = ExpectedLoads(tracks)
      ]_vars

\* play() ran on the playlist <<x, y>>, or on <<x, x>> and started with x
C12_Witness ==
    /\ lastOp = "play" /\ IsMPlayer
    /\ Len(tracks) = 2 /\ tracks[1] = "x"
    /\ Len(calls) = 3
    /\ calls[2] = MpcLoadfile("x", 0)
    /\ calls[3] = MpcLoadfile(tracks[2], 1)

\* C13: play() sends the engine a stop before any loadfile, and with an empty
\* pending playlist it sends the stop and no loadfile.
C13_StopBeforeLoad ==
    (lastOp = "play" /\ IsMPlayer) =>
        /\ Len(calls) >= 1 /\ calls[1] = MpcStop
        /\ tracks = <<>> => calls = <<MpcStop>>

\* play() ran on a playlist of two tracks
C13_Witness ==
    /\ lastOp = "play" /\ IsMPlayer
    /\ Len(tracks) = 2
    /\ IsLoad(calls[2]) /\ IsLoad(calls[3])

\* C14: stop() returns true when playback was in progress and false when
\* nothing was playing.
C14_StopResult ==
    [][lastOp' = "stop" => result' = [bool |-> mpc.playing]]_vars

\* C15: after pause() the engine is paused and after resume() it is not,
\* whatever its state before; pause() on a paused engine and resume() on a
\* playing one send the engine nothing.
C15_PauseResumeIdempotent ==
    [][IsMPlayer =>
          /\ lastOp' = "pause" =>
                /\ mpc'.paused
                /\ mpc.paused => (calls' = <<>> /\ mpc' = mpc)
          /\ lastOp' = "resume" =>
                /\ ~mpc'.paused
                /\ ~mpc.paused => (calls' = <<>> /\ mpc' = mpc)
      ]_vars

\* pause() was called on a paused engine: no call, still paused
C15_Witness ==
    /\ lastOp = "pause" /\ IsMPlayer
    /\ calls = <<>>
    /\ mpc.paused

Eligible(entry) ==
    /\ entry["type"] = PyStr("mplayer")
    /\ ("active" \in DOMAIN entry => entry["active"] = PyTrue)

\* C17: load_service creates exactly one instance per entry of the backends
\* table whose type is mplayer and whose active flag is true or absent, none
\* for the other entries, and each instance has its entry's configuration and
\* name.
C17_OneInstancePerActiveEntry ==
    lastOp = "load_service" =>
        LET table == IF "backends" \in DOMAIN arg THEN arg["backends"] ELSE <<>>
            chosen == {i \in DOMAIN table : Eligible(table[i].v)}
        IN  /\ Len(result) = Cardinality(chosen)
            /\ \A i \in chosen :
                   \E j \in DOMAIN result :
                       result[j] = [config |-> table[i].v, name |-> table[i].k]
            /\ \A j \in DOMAIN result :
                   \E i \in chosen :
                       result[j] = [config |-> table[i].v, name |-> table[i].k]

\* a table of an mplayer entry without flag and an mplayer entry with active
\* false was loaded: one instance, of the first
C17_Witness ==
    /\ lastOp = "load_service"
    /\ "backends" \in DOMAIN arg
    /\ Len(arg["backends"]) = 2
    /\ arg["backends"][1].v = [type |-> PyStr("mplayer")]
    /\ arg["backends"][2].v = [type |-> PyStr("mplayer"), active |-> PyFalse]
    /\ result = <<[config |-> [type |-> PyStr("mplayer")], name |-> arg["backends"][1].k]>>

(***************************************************************************)
(* Frame properties: what the handler of status events and the player's    *)
(* operations leave alone.                                                 *)
(***************************************************************************)
\* C19: a status event changes at most the record at its determined index:
\* the other records, current_index, the pending playlist, the remembered
\* ducking volume and the track-start callback are unchanged, and in the
\* target record the fields absent from the event or falsy in it keep their
\* stored value.
C19_StatusFrame ==
    [][lastOp' = "handle_track_status" =>
          /\ index' = index
          /\ tracks' = tracks
          /\ normal_volume' = normal_volume
          /\ track_start_callback' = track_start_callback
          /\ \A idx \in Keys(track_data) \cup Keys(track_data') :
                 idx # resolved' =>
                     /\ Has(track_data, idx) /\ Has(track_data', idx)
                     /\ Item(track_data', idx) = Item(track_data, idx)
          /\ (Has(track_data, resolved') /\ Has(track_data', resolved')) =>
                 \A k \in DOMAIN Item(track_data, resolved') :
                     (k \notin DOMAIN event' \/ ~Truthy(event'[k])) =>
                         /\ k \in DOMAIN Item(track_data', resolved')
                         /\ Item(track_data', resolved')[k] = Item(track_data, resolved')[k]
      ]_vars

\* with a track queued, a callback registered and the volume lowered, an
\* event for index 0 with an empty uri arrived: the record of index 0 keeps
\* its uri, the record of index 1 is there
C19_Witness ==
    /\ lastOp = "handle_track_status"
    /\ IsMPlayer
    /\ resolved = PyInt(0)
    /\ "uri" \in DOMAIN event /\ event["uri"] = PyStr("")
    /\ Has(track_data, PyInt(0)) /\ Has(track_data, PyInt(1))
    /\ DictGet(Item(track_data, PyInt(0)), "uri") = PyStr("x")
    /\ tracks # <<>>
    /\ normal_volume # None
    /\ track_start_callback = Callback("cb1")

PlayerOps ==
    {"clear_list", "add_list", "play", "stop", "pause", "resume", "next", "previous",
     "lower_volume", "restore_volume"}

\* C20: the playlist and transport operations never modify the metadata store
\* or current_index, and current_index is 0 in every reachable state.
C20_PlayerFrame ==
    /\ [](index = PyInt(0))
    /\ [][lastOp' \in PlayerOps => (track_data' = track_data /\ index' = index)]_vars

\* clear_list() ran on a backend whose store holds a record with uri "x"
C20_Witness ==
    /\ lastOp = "clear_list"
    /\ \E i \in DOMAIN track_data : DictGet(track_data[i].v, "uri") = PyStr("x")

(***************************************************************************)
(* The handler of status events interleaved with the queries.              *)
(***************************************************************************)
\* C16: with handle_track_status on the event-delivery thread interleaved,
\* statement by statement, with track_info and playlist_info on the command
\* thread, no step raises an error, no step loses a non-empty field of a
\* record, a handler that determined an index returns with every non-empty
\* field of its payload in the record of that index, and the two threads are
\* never both inside their methods.
C16_ConcurrentSafe ==
    [][/\ err' = "none"
       /\ ~(ev' # Idle /\ cmd' # Idle)
       /\ \A idx \in Keys(track_data) : \A k \in NonEmpty(Item(track_data, idx)) :
              /\ Has(track_data', idx)
              /\ k \in NonEmpty(Item(track_data', idx))
       /\ (ev # Idle /\ ev' = Idle /\ resolved' # None) =>
              \A k \in NonEmpty(event') :
                  /\ Has(track_data', resolved')
                  /\ DictGet(Item(track_data', resolved'), k) = event'[k]
      ]_vars

=============================================================================
